---- MODULE Spec2Model ----
(***************************************************************************)
(* SurfaceTriangulation (pmp): minimal-weight triangulation of a polygonal *)
(* face by dynamic programming (the cost planner) followed by insertion of *)
(* the chosen diagonals into the halfedge mesh (the diagonal committer).   *)
(*                                                                         *)
(* Scalars.  A Scalar is modelled as a pair <<num, den>>:                  *)
(*   den > 0 : the exact real number num / den;                            *)
(*   <<1,0>> : std::numeric_limits<Scalar>::max();                         *)
(*   <<2,0>> : +infinity, the result of a sum that overflows max().        *)
(* Squared areas of integer points are integers (den = 1).  A cosine c is  *)
(* kept as sign(c) * c^2, an exact rational; the code only compares these  *)
(* values and takes their maximum, and c |-> sign(c)*c^2 preserves order,  *)
(* 0.0 and max().  Rounding of finite values is not modelled.              *)
(***************************************************************************)
EXTENDS Integers, Sequences, FiniteSets

\* ----------------------------------------------------------------- bounds
\* largest number of boundary vertices of the face given to triangulate
MaxN == 6
\* largest number of edges of the surrounding mesh that join two
\* non-adjacent boundary vertices of the face
MaxChords == 2
\* number of times triangulate(Objective) is called on the mesh
MaxRuns == 2
MaxOrderN == 7
MaxOrderChords == 1
\* vertical offsets a boundary vertex may take (the family of polygons)
Offsets == {0, 1}

\* ---------------------------------------------------------------- scalars
FltMax == <<1, 0>>
FltInf == <<2, 0>>
Zero == <<0, 1>>

\* x < y on Scalars
SLess(x, y) ==
    IF x[2] = 0 /\ y[2] = 0 THEN x[1] < y[1]
    ELSE IF x[2] = 0 THEN FALSE
    ELSE IF y[2] = 0 THEN TRUE
    ELSE x[1] * y[2] < y[1] * x[2]

SEq(x, y) == ~SLess(x, y) /\ ~SLess(y, x)

\* std::max(x, y): returns x unless x < y
SMax(x, y) == IF SLess(x, y) THEN y ELSE x

\* x + y in floating point: max() absorbs every weight a triangle can have,
\* max() + max() overflows to +infinity
SAdd(x, y) ==
    IF x[2] = 0 /\ y[2] = 0 THEN FltInf
    ELSE IF x[2] = 0 THEN x
    ELSE IF y[2] = 0 THEN y
    ELSE <<x[1] * y[2] + y[1] * x[2], x[2] * y[2]>>

\* ------------------------------------------------------- vector arithmetic
Sub(p, q) == <<p[1] - q[1], p[2] - q[2]>>
Dot(u, v) == u[1] * v[1] + u[2] * v[2]
\* the only non-zero component of the cross product of two vectors with z = 0
Cross(u, v) == u[1] * v[2] - u[2] * v[1]
\* sqrnorm(cross(u, v))
SqrnormCross(u, v) == Cross(u, v) * Cross(u, v)
\* dot(normalize(u), normalize(v)), kept as sign(c) * c^2
CosOf(u, v) ==
    LET d == Dot(u, v)
    IN  <<(IF d < 0 THEN -1 ELSE 1) * d * d, Dot(u, u) * Dot(v, v)>>

\* ------------------------------------------------------------------- state
VARIABLES
    mesh_,        \* SurfaceMesh connectivity: tov, nxt, hface, fhalf, edges
    points_,      \* "v:point" vertex property
    nonManifold,  \* the vertices for which mesh_.is_manifold is false
    objective_,   \* stored objective
    halfedges_,   \* snapshot of the face's halfedges
    vertices_,    \* snapshot of the face's vertices
    weight_,      \* cost table
    index_,       \* split table
    todo,         \* stack of ranges of the commit loop
    pc,           \* position: idle, loop, plan, commit, cleanup, undefined
    faceQueue,    \* faces triangulate(Objective) still has to visit
    runs,         \* calls of triangulate(Objective) made so far
    o,            \* the argument of the running triangulate(Objective)
    hist          \* history of the current triangulate(Face, Objective) call

vars == <<mesh_, points_, nonManifold, objective_, halfedges_, vertices_,
          weight_, index_, todo, pc, faceQueue, runs, o, hist>>

Objectives == {"MIN_AREA", "MAX_ANGLE"}

\* 0-based access to a std::vector modelled as a sequence
At(s, i) == s[i + 1]

\* ------------------------------------------------- the mesh (SurfaceMesh)
\* Halfedges and faces are numbered from 1, vertices from 0.
\*   tov[h]   to_vertex(h)          nxt[h]   next_halfedge(h)
\*   hface[h] face(h)               fhalf[f] halfedge(f)
\*   edges    the edges of the whole mesh among the modelled vertices, as
\*            unordered pairs: find_halfedge(a, b) is valid iff {a,b} is one

Halfedges(m) == 1..Len(m.tov)
Faces(m) == 1..Len(m.fhalf)

to_vertex(m, h) == m.tov[h]
next_halfedge(m, h) == m.nxt[h]
find_halfedge_valid(m, a, b) == {a, b} \in m.edges
is_manifold(v) == v \notin nonManifold

\* the halfedges met from h by next_halfedge until h comes back; the walk is
\* cut after every halfedge of the mesh has been met once
RECURSIVE LoopFrom(_, _, _, _)
LoopFrom(m, h0, h, fuel) ==
    IF fuel = 0 THEN <<>>
    ELSE IF next_halfedge(m, h) = h0 THEN <<h>>
    ELSE <<h>> \o LoopFrom(m, h0, next_halfedge(m, h), fuel - 1)

FaceLoop(m, h0) == LoopFrom(m, h0, h0, Len(m.tov))

\* set_face(h, f) for every h of the loop through h2
SetLoopFace(m, h2, f) ==
    LET L == FaceLoop(m, h2)
        S == {L[x] : x \in 1..Len(L)}
    IN  [m EXCEPT !.hface = [h \in DOMAIN m.hface |->
                                IF h \in S THEN f ELSE m.hface[h]]]

\* SurfaceMesh::insert_edge(h0, h1): a new edge to_vertex(h0) - to_vertex(h1)
\* splits face(h0); the new face gets the loop through h1
MeshInsertEdge(m, h0, h1) ==
    LET v0 == m.tov[h0]
        v1 == m.tov[h1]
        h2 == m.nxt[h0]
        h3 == m.nxt[h1]
        h4 == Len(m.tov) + 1
        h5 == Len(m.tov) + 2
        f0 == m.hface[h0]
        f1 == Len(m.fhalf) + 1
        n1 == [h \in 1..h5 |->
                 IF h = h0 THEN h4 ELSE IF h = h4 THEN h3
                 ELSE IF h = h5 THEN h2 ELSE m.nxt[h]]
        n2 == [n1 EXCEPT ![h1] = h5]
        m1 == [tov   |-> m.tov \o <<v1, v0>>,
               nxt   |-> n2,
               hface |-> m.hface \o <<f0, f1>>,
               fhalf |-> [m.fhalf EXCEPT ![f0] = h0] \o <<h1>>,
               edges |-> m.edges \cup {{v0, v1}}]
    IN  SetLoopFace(m1, h2, f1)

\* precondition of SurfaceMesh::insert_edge(h0, h1) for the diagonal v0 - v1
MeshInsertPre(m, h0, h1, v0, v1) ==
    /\ m.hface[h0] = m.hface[h1]
    /\ m.tov[h0] = v0
    /\ m.tov[h1] = v1
    /\ v0 # v1
    /\ {v0, v1} \notin m.edges

\* ------------------------------------------------------ the input meshes
\* The face to triangulate has the vertices 0..n-1.  Its lower chain runs
\* left to right at height 0 or 1, its upper chain right to left at height
\* 2 or 3; d gives every vertex its offset.
Lower(n) == (n + 1) \div 2

PolygonPoints(n, d) ==
    [v \in 0..(n - 1) |->
        IF v < Lower(n) THEN <<v, d[v]>> ELSE <<n - 1 - v, 2 + d[v]>>]

Chords(n) == {{a, b} : a, b \in 0..(n - 1)} \ 
             ({{a} : a \in 0..(n - 1)} \cup {{a, (a + 1) % n} : a \in 0..(n - 1)})

\* one face 1 with halfedges 1..n, halfedge h leading to vertex h-1;
\* with back = TRUE the reversed face 2 on the halfedges n+1..2n closes the
\* mesh; r is the halfedge face 1 refers to; ext are edges of the rest of
\* the mesh joining boundary vertices of the face
InitialMesh(n, back, r, ext) ==
    LET front == [h \in 1..n |-> h - 1]
        bk    == [h \in 1..n |-> (h + n - 2) % n]
    IN  [tov   |-> IF back THEN front \o bk ELSE front,
         nxt   |-> IF back
                   THEN [h \in 1..(2 * n) |->
                           IF h <= n THEN (h % n) + 1
                           ELSE n + (((h - n) + n - 2) % n) + 1]
                   ELSE [h \in 1..n |-> (h % n) + 1],
         hface |-> IF back THEN [h \in 1..(2 * n) |-> IF h <= n THEN 1 ELSE 2]
                   ELSE [h \in 1..n |-> 1],
         fhalf |-> IF back THEN <<r, n + 1>> ELSE <<r>>,
         edges |-> {{a, (a + 1) % n} : a \in 0..(n - 1)} \cup ext]

\* what the current call of triangulate(Face, Objective) has done so far:
\* its face, the mesh it started from, how it left (outcome), the number of
\* "This should not happen" lines written, and the calls of
\* SurfaceMesh::insert_edge made by the last iteration of the commit loop
NoHist == [face |-> 0, mesh0 |-> <<>>, outcome |-> "none", logs |-> 0,
           calls |-> <<>>]

Init ==
    \E n \in 3..MaxN, back \in BOOLEAN :
    \E d \in [0..(n - 1) -> Offsets], ext \in SUBSET Chords(n), r \in {1, n} :
    \E bad \in {{}} \cup {{v} : v \in 0..(n - 1)} :
        /\ Cardinality(ext) <= MaxChords
        /\ (back \/ bad # {} \/ r # 1) => ext = {}
        /\ mesh_ = InitialMesh(n, back, r, ext)
        /\ points_ = PolygonPoints(n, d)
        /\ nonManifold = bad
        /\ objective_ = "MAX_ANGLE"
        /\ halfedges_ = <<>>
        /\ vertices_ = <<>>
        /\ weight_ = <<>>
        /\ index_ = <<>>
        /\ todo = <<>>
        /\ pc = "idle"
        /\ faceQueue = <<>>
        /\ runs = 0
        /\ o = "MAX_ANGLE"
        /\ hist = NoHist

\* ------------------------------------------------------------ the planner
is_edge(a, b) == find_halfedge_valid(mesh_, a, b)

\* squared triangle area (MIN_AREA) or largest cosine of the three angles
\* (MAX_ANGLE) of the triangle of the points pA, pB, pC
TriangleWeight(obj, pA, pB, pC) ==
    IF obj = "MIN_AREA"
    THEN <<SqrnormCross(Sub(pB, pA), Sub(pC, pA)), 1>>
    ELSE LET cosa == CosOf(Sub(pB, pA), Sub(pC, pA))
             cosb == CosOf(Sub(pA, pB), Sub(pC, pB))
             cosc == CosOf(Sub(pA, pC), Sub(pB, pC))
         IN  SMax(cosa, SMax(cosb, cosc))

\* the validity gate: all three edges of the triangle exist in the mesh
Gated(a, b, c) == is_edge(a, b) /\ is_edge(b, c) /\ is_edge(c, a)

compute_weight(i, j, k) ==
    LET a == At(vertices_, i)
        b == At(vertices_, j)
        c == At(vertices_, k)
    IN  IF Gated(a, b, c) THEN FltMax
        ELSE TriangleWeight(objective_, points_[a], points_[b], points_[c])

\* the combined cost of the split m of the range [i, k]
Combined(W, i, m, k) ==
    IF objective_ = "MIN_AREA"
    THEN SAdd(SAdd(W[i][m], compute_weight(i, m, k)), W[m][k])
    ELSE SMax(W[i][m], SMax(compute_weight(i, m, k), W[m][k]))

\* a scan that also lets an equal cost replace the incumbent
BetterOrEqual(w, wmin) == ~SLess(wmin, w)

\* does the candidate cost w replace the incumbent wmin
Better(w, wmin) == SLess(w, wmin)

\* the scan "find best split i < m < i+j" from candidate m on
RECURSIVE BestSplit(_, _, _, _, _, _)
BestSplit(W, i, k, m, wmin, imin) ==
    IF m >= k THEN <<wmin, imin>>
    ELSE LET w == Combined(W, i, m, k)
         IN  IF Better(w, wmin) THEN BestSplit(W, i, k, m + 1, w, m)
             ELSE BestSplit(W, i, k, m + 1, wmin, imin)

\* the tables before the loop over j: max() and 0 everywhere, the 2-gons set
InitialTables(n) ==
    [w |-> [i \in 0..(n - 1) |-> [k \in 0..(n - 1) |->
                IF k = i + 1 THEN Zero ELSE FltMax]],
     x |-> [i \in 0..(n - 1) |-> [k \in 0..(n - 1) |->
                IF k = i + 1 THEN -1 ELSE 0]]]

\* the loop "for (i = 0; i < n - j; ++i)" from i on: the best split of the
\* range [i, i + j] is stored in the two tables
RECURSIVE FillSpan(_, _, _, _)
FillSpan(T, i, j, n) ==
    IF i >= n - j THEN T
    ELSE LET best == BestSplit(T.w, i, i + j, i + 1, FltMax, -1)
         IN  FillSpan([w |-> [T.w EXCEPT ![i][i + j] = best[1]],
                       x |-> [T.x EXCEPT ![i][i + j] = best[2]]],
                      i + 1, j, n)

\* the loop "n-gons with n>2" from span j on
RECURSIVE FillTables(_, _, _)
FillTables(T, j, n) ==
    IF j >= n THEN T
    ELSE FillTables(FillSpan(T, 0, j, n), j + 1, n)

\* --------------------------------------------------------- the committer
\* the first halfedge h with to_vertex(h) = v met by
\* "do h = next_halfedge(h) ... while (h != h0)", or 0
WalkFind(m, h0, v) ==
    LET L == FaceLoop(m, h0)
        W == Tail(L) \o <<h0>>
        hit == {x \in 1..Len(W) : m.tov[W[x]] = v}
    IN  IF hit = {} THEN 0
        ELSE W[CHOOSE x \in hit : \A y \in hit : x <= y]

\* an insert_edge that walks from h0 only
insert_edge_first_walk(m, h0, h1, v0, v1) ==
    IF find_halfedge_valid(m, v0, v1)
    THEN [mesh |-> m, res |-> "exists", pre |-> TRUE]
    ELSE LET a == WalkFind(m, h0, v1)
         IN  IF a # 0
             THEN [mesh |-> MeshInsertEdge(m, h0, a), res |-> "first",
                   pre |-> MeshInsertPre(m, h0, a, v0, v1)]
             ELSE [mesh |-> m, res |-> "failed", pre |-> TRUE]

\* SurfaceTriangulation::insert_edge for halfedges_[i] = h0, halfedges_[j] =
\* h1, vertices_[i] = v0, vertices_[j] = v1.  res: "exists", "first",
\* "second" (the walk that found the target) or "failed" (the line "This
\* should not happen" is written); pre: the precondition of the mesh call
insert_edge_at(m, h0, h1, v0, v1) ==
    IF find_halfedge_valid(m, v0, v1)
    THEN [mesh |-> m, res |-> "exists", pre |-> TRUE]
    ELSE LET a == WalkFind(m, h0, v1)
             b == WalkFind(m, h1, v0)
         IN  IF a # 0
             THEN [mesh |-> MeshInsertEdge(m, h0, a), res |-> "first",
                   pre |-> MeshInsertPre(m, h0, a, v0, v1)]
             ELSE IF b # 0
             THEN [mesh |-> MeshInsertEdge(m, h1, b), res |-> "second",
                   pre |-> MeshInsertPre(m, h1, b, v1, v0)]
             ELSE [mesh |-> m, res |-> "failed", pre |-> TRUE]

insert_edge(m, i, j) ==
    insert_edge_at(m, At(halfedges_, i), At(halfedges_, j),
                   At(vertices_, i), At(vertices_, j))

\* ------------------------------------------- triangulate(Face, Objective)
\* a collection loop without the manifold test
NoManifoldTest(m, L) == 0

\* the position in the loop L of the first halfedge whose vertex is not
\* manifold, or 0
FirstNonManifold(m, L) ==
    LET bad == {x \in 1..Len(L) : ~is_manifold(to_vertex(m, L[x]))}
    IN  IF bad = {} THEN 0 ELSE CHOOSE x \in bad : \A y \in bad : x <= y

\* a size test that lets triangles through
TooSmallBelowThree(n) == n <= 2

\* "do we have at least four vertices?": the face needs no triangulation
TooSmall(n) == n <= 3

\* collect the polygon's halfedges; return on a non-manifold vertex or on a
\* face of at most three vertices
Collect ==
    /\ pc = "loop"
    /\ faceQueue # <<>>
    /\ LET f == Head(faceQueue)
           L == FaceLoop(mesh_, mesh_.fhalf[f])
           p == FirstNonManifold(mesh_, L)
           K == IF p = 0 THEN L ELSE SubSeq(L, 1, p - 1)
           left == p # 0 \/ TooSmall(Len(K))
       IN  /\ objective_' = o
           /\ halfedges_' = K
           /\ vertices_' = [x \in 1..Len(K) |-> to_vertex(mesh_, K[x])]
           /\ pc' = IF left THEN "loop" ELSE "plan"
           /\ faceQueue' = IF left THEN Tail(faceQueue) ELSE faceQueue
           /\ hist' = [face |-> f, mesh0 |-> mesh_,
                       outcome |-> IF p # 0 THEN "nonmanifold"
                                   ELSE IF left THEN "small" ELSE "running",
                       logs |-> 0, calls |-> <<>>]
    /\ UNCHANGED <<mesh_, points_, nonManifold, weight_, index_, todo, runs, o>>

\* compute the minimal triangulation by dynamic programming and push the
\* whole range
Plan ==
    /\ pc = "plan"
    /\ LET n == Len(halfedges_)
           T == FillTables(InitialTables(n), 2, n)
       IN  /\ weight_' = T.w
           /\ index_' = T.x
           /\ todo' = << <<0, n - 1>> >>
    /\ pc' = "commit"
    /\ UNCHANGED <<mesh_, points_, nonManifold, objective_, halfedges_,
                   vertices_, faceQueue, runs, o, hist>>

Failed(r) == IF r.res = "failed" THEN 1 ELSE 0

\* one iteration of "while (!todo.empty())"; with swap the two children are
\* pushed in the other order.  A split of -1 makes insert_edge read halfedges_[-1] and
\* vertices_[-1]: the call either stops the process or goes on with some
\* halfedge gh and vertex gv in their place; what follows is not modelled.
CommitStepOrd(swap) ==
    /\ pc = "commit"
    /\ todo # <<>>
    /\ LET start == todo[Len(todo)][1]
           end   == todo[Len(todo)][2]
           rest  == SubSeq(todo, 1, Len(todo) - 1)
           split == index_[start][end]
       IN  IF end - start < 2
           THEN /\ todo' = rest
                /\ hist' = [hist EXCEPT !.calls = <<>>]
                /\ UNCHANGED <<mesh_, pc>>
           ELSE IF split = -1
           THEN /\ pc' = "undefined"
                /\ todo' = rest
                /\ \/ /\ hist' = [hist EXCEPT !.calls = <<>>]
                      /\ UNCHANGED mesh_
                   \/ \E gh \in Halfedges(mesh_), gv \in DOMAIN points_ :
                        LET r1 == insert_edge_at(mesh_, At(halfedges_, start),
                                      gh, At(vertices_, start), gv)
                            r2 == insert_edge_at(r1.mesh, gh,
                                      At(halfedges_, end), gv,
                                      At(vertices_, end))
                        IN  /\ mesh_' = r2.mesh
                            /\ hist' = [hist EXCEPT
                                   !.calls = <<r1, r2>>,
                                   !.logs = @ + Failed(r1) + Failed(r2)]
           ELSE LET r1 == insert_edge(mesh_, start, split)
                    r2 == insert_edge(r1.mesh, split, end)
                IN  /\ mesh_' = r2.mesh
                    /\ todo' = rest \o (IF swap
                                 THEN << <<split, end>>, <<start, split>> >>
                                 ELSE << <<start, split>>, <<split, end>> >>)
                    /\ hist' = [hist EXCEPT
                                   !.calls = <<r1, r2>>,
                                   !.logs = @ + Failed(r1) + Failed(r2)]
                    /\ UNCHANGED pc
    /\ UNCHANGED <<points_, nonManifold, objective_, halfedges_, vertices_,
                   weight_, index_, faceQueue, runs, o>>

\* the code pushes (start, split), then (split, end)
CommitStep == CommitStepOrd(FALSE)

\* a committer that pushes the two children in either order
CommitAny == \E swap \in BOOLEAN : CommitStepOrd(swap)

\* "clean up" and return to the loop over the faces
Cleanup ==
    /\ pc = "commit"
    /\ todo = <<>>
    /\ weight_' = <<>>
    /\ index_' = <<>>
    /\ halfedges_' = <<>>
    /\ vertices_' = <<>>
    /\ pc' = "loop"
    /\ faceQueue' = Tail(faceQueue)
    /\ hist' = [hist EXCEPT !.outcome = "committed", !.calls = <<>>]
    /\ UNCHANGED <<mesh_, points_, nonManifold, objective_, todo, runs, o>>

\* ------------------------------------------------- triangulate(Objective)
\* "for (auto f : mesh_.faces())": the faces present when the loop starts
TriangulateAll(obj) ==
    /\ pc = "idle"
    /\ runs < MaxRuns
    /\ pc' = "loop"
    /\ faceQueue' = [f \in Faces(mesh_) |-> f]
    /\ o' = obj
    /\ runs' = runs + 1
    /\ UNCHANGED <<mesh_, points_, nonManifold, objective_, halfedges_,
                   vertices_, weight_, index_, todo, hist>>

Return ==
    /\ pc = "loop"
    /\ faceQueue = <<>>
    /\ pc' = "idle"
    /\ UNCHANGED <<mesh_, points_, nonManifold, objective_, halfedges_,
                   vertices_, weight_, index_, todo, faceQueue, runs, o, hist>>

Next ==
    \/ \E obj \in Objectives : TriangulateAll(obj)
    \/ Collect
    \/ Plan
    \/ CommitStep
    \/ Cleanup
    \/ Return

Spec == Init /\ [][Next]_vars

NextAny ==
    \/ \E obj \in Objectives : TriangulateAll(obj)
    \/ Collect
    \/ Plan
    \/ CommitAny
    \/ Cleanup
    \/ Return

\* the open meshes of one face of up to MaxOrderN vertices: from seven
\* vertices on both children of a range can hold a diagonal of their own
InitAnyOrder ==
    \E n \in 4..MaxOrderN :
    \E d \in [0..(n - 1) -> Offsets], ext \in SUBSET Chords(n) :
        /\ Cardinality(ext) <= MaxOrderChords
        /\ mesh_ = InitialMesh(n, FALSE, 1, ext)
        /\ points_ = PolygonPoints(n, d)
        /\ nonManifold = {}
        /\ objective_ = "MAX_ANGLE"
        /\ halfedges_ = <<>>
        /\ vertices_ = <<>>
        /\ weight_ = <<>>
        /\ index_ = <<>>
        /\ todo = <<>>
        /\ pc = "idle"
        /\ faceQueue = <<>>
        /\ runs = 0
        /\ o = "MAX_ANGLE"
        /\ hist = NoHist

SpecAnyOrder == InitAnyOrder /\ [][NextAny]_vars

\* ------------------------------------------------- what the claims speak of
\* the boundary of face f in mesh m: its halfedges, vertices and size
FaceHalfedges(m, f) == FaceLoop(m, m.fhalf[f])
FaceVertices(m, f) ==
    LET L == FaceHalfedges(m, f) IN [x \in 1..Len(L) |-> m.tov[L[x]]]
FaceSize(m, f) == Len(FaceHalfedges(m, f))
SeqSet(q) == {q[x] : x \in 1..Len(q)}

\* the face of the current call as it was when the call started
CallVertices == FaceVertices(hist.mesh0, hist.face)
CallN == Len(CallVertices)
CallManifold == \A v \in SeqSet(CallVertices) : is_manifold(v)
Called == hist.face # 0
Returned == Called /\ hist.outcome \in {"nonmanifold", "small", "committed"}
\* the commit loop has emptied todo, the tables are still there
CommitDone == pc = "commit" /\ todo = <<>>

\* the faces the call has made of its face, and the edges it has inserted
CarvedFaces == {hist.face} \cup ((Len(hist.mesh0.fhalf) + 1)..Len(mesh_.fhalf))
InsertedEdges == mesh_.edges \ hist.mesh0.edges
AllTriangles == \A f \in CarvedFaces : FaceSize(mesh_, f) = 3

\* the polygon of the vertex sequence q turns the same way at every vertex
Turn(q, x) ==
    LET a == points_[q[x]]
        b == points_[q[(x % Len(q)) + 1]]
        c == points_[q[((x + 1) % Len(q)) + 1]]
    IN  Cross(Sub(b, a), Sub(c, b))
Convex(q) ==
    /\ (\A x \in 1..Len(q) : Turn(q, x) >= 0) \/ (\A x \in 1..Len(q) : Turn(q, x) <= 0)
    /\ \E x \in 1..Len(q) : Turn(q, x) # 0

\* the tables have just been built: the mesh is still the one of the call's
\* start and todo holds the whole range only
JustPlanned ==
    /\ pc = "commit"
    /\ mesh_ = hist.mesh0
    /\ todo = << <<0, Len(vertices_) - 1>> >>

Ranges(n) == {ik \in (0..(n - 1)) \X (0..(n - 1)) : ik[2] - ik[1] >= 2}

\* every triangulation of the sub-polygon i..k, as a set of index triples
RECURSIVE Triangulations(_, _)
Triangulations(i, k) ==
    IF k - i < 2 THEN {{}}
    ELSE UNION {{t1 \cup {<<i, m, k>>} \cup t2 :
                    t1 \in Triangulations(i, m), t2 \in Triangulations(m, k)} :
                m \in (i + 1)..(k - 1)}

\* the objective's aggregate of the weights of a set of triangles
RECURSIVE Aggregate(_)
Aggregate(S) ==
    IF S = {} THEN Zero
    ELSE LET t == CHOOSE x \in S : TRUE
             w == compute_weight(t[1], t[2], t[3])
         IN  IF objective_ = "MIN_AREA" THEN SAdd(w, Aggregate(S \ {t}))
             ELSE SMax(w, Aggregate(S \ {t}))

\* the least aggregate over all triangulations of i..k
BruteMin(i, k) ==
    LET A == {Aggregate(S) : S \in Triangulations(i, k)}
    IN  CHOOSE a \in A : \A b \in A : ~SLess(b, a)

\* the triangles of the split-table tree below the range (i, k)
RECURSIVE TreeTriangles(_, _)
TreeTriangles(i, k) ==
    IF k - i < 2 \/ index_[i][k] = -1 THEN {}
    ELSE LET m == index_[i][k]
         IN  {<<i, m, k>>} \cup TreeTriangles(i, m) \cup TreeTriangles(m, k)

\* no range of the tree below (i, k) holds the no-split sentinel
RECURSIVE TreeValid(_, _)
TreeValid(i, k) ==
    \/ k - i < 2
    \/ /\ index_[i][k] # -1
       /\ TreeValid(i, index_[i][k])
       /\ TreeValid(index_[i][k], k)

\* the vertex sets of the triangles among the carved faces
CarvedTriangles ==
    {SeqSet(FaceVertices(mesh_, f)) :
        f \in {g \in CarvedFaces : FaceSize(mesh_, g) = 3}}

\* squared area of the triangle with the vertex set vs
AreaOf(vs) ==
    LET a == CHOOSE x \in vs : TRUE
        b == CHOOSE x \in vs \ {a} : TRUE
        c == CHOOSE x \in vs \ {a, b} : TRUE
    IN  TriangleWeight("MIN_AREA", points_[a], points_[b], points_[c])

RECURSIVE SumAreas(_)
SumAreas(T) ==
    IF T = {} THEN Zero
    ELSE LET t == CHOOSE x \in T : TRUE IN SAdd(AreaOf(t), SumAreas(T \ {t}))

\* the commit loop run to its end in the code's order, as a function
RECURSIVE RunCommit(_, _)
RunCommit(m, stack) ==
    IF stack = <<>> THEN m
    ELSE LET start == stack[Len(stack)][1]
             end   == stack[Len(stack)][2]
             rest  == SubSeq(stack, 1, Len(stack) - 1)
         IN  IF end - start < 2 THEN RunCommit(m, rest)
             ELSE LET split == index_[start][end]
                      r1 == insert_edge(m, start, split)
                      r2 == insert_edge(r1.mesh, split, end)
                  IN  RunCommit(r2.mesh,
                          rest \o << <<start, split>>, <<split, end>> >>)

FaceSets(m) == {SeqSet(FaceVertices(m, f)) : f \in Faces(m)}

\* the ranges of the split-table tree below (i, k), a valid tree assumed
RECURSIVE TreeRanges(_, _)
TreeRanges(i, k) ==
    IF k - i < 2 THEN {<<i, k>>}
    ELSE {<<i, k>>} \cup TreeRanges(i, index_[i][k])
                    \cup TreeRanges(index_[i][k], k)

\* the vertex set of the index triple t of the snapshot
TripleVertices(t) == {At(vertices_, t[1]), At(vertices_, t[2]), At(vertices_, t[3])}

\* every candidate split of the range [i, k] costs at least max()
AllMax(i, k) ==
    \A m \in (i + 1)..(k - 1) : ~SLess(Combined(weight_, i, m, k), FltMax)

\* ---------------------------------------------------------------- claims

\* C1: for every convex polygon face with n >= 4 manifold boundary
\* vertices, once triangulate(face, objective) has returned the face has
\* been replaced by exactly n-2 faces, all of them triangles, and at most
\* n-3 diagonals have been inserted.  Refuted: a diagonal whose edge the
\* mesh already holds is skipped.
C1_ConvexFaceFullyTriangulated ==
    (Returned /\ CallN >= 4 /\ CallManifold /\ Convex(CallVertices))
        => /\ AllTriangles
           /\ Cardinality(CarvedFaces) = CallN - 2
           /\ Cardinality(InsertedEdges) <= CallN - 3

\* C2: for every manifold face with n >= 4 boundary vertices, in any
\* surrounding mesh, when the commit loop has finished either every face
\* carved out of the original face is a triangle or "This should not
\* happen" has been logged at least once.  Refuted.
C2_TrianglesOrLogged ==
    (CommitDone /\ CallManifold /\ CallN >= 4)
        => (AllTriangles \/ hist.logs >= 1)

\* C3: under MIN_AREA, when the commit loop of a face with n >= 4 has
\* finished, the triangles present are exactly the triangles (start, split,
\* end) of the split-table tree rooted at (0, n-1), and the sum of their
\* weights equals weight_[0][n-1].  Refuted.
C3_AreaSumEqualsRootCost ==
    (CommitDone /\ objective_ = "MIN_AREA" /\ CallN >= 4)
        => /\ AllTriangles
           /\ CarvedTriangles =
                  {TripleVertices(t) : t \in TreeTriangles(0, CallN - 1)}
           /\ SEq(SumAreas(CarvedTriangles), weight_[0][CallN - 1])

\* C4: after the planner has finished, for every range 0 <= i < k <= n-1
\* the entry weight_[i][k] equals the least aggregate of the triangle
\* weights over all triangulations of the sub-polygon i..k (the sum under
\* MIN_AREA, the maximum under MAX_ANGLE), with weight_[i][i+1] = 0.
\* Refuted.
C4_CostIsBruteForceMinimum ==
    JustPlanned
        => \A i \in 0..(Len(vertices_) - 2) :
               \A k \in (i + 1)..(Len(vertices_) - 1) :
                   SEq(weight_[i][k], BruteMin(i, k))

\* C5: for every range [i, k] with k - i >= 2 in which some candidate has
\* a combined cost below max(), the split recorded is the lowest m with
\* i < m < k that attains the least combined cost; the diagonals a commit
\* inserts are those of the split-table tree that the mesh did not hold.
C5_LowestMinimizingSplit ==
    /\ JustPlanned
           => \A ik \in Ranges(Len(vertices_)) :
                  LET i == ik[1]
                      k == ik[2]
                      x == index_[i][k]
                      C(m) == Combined(weight_, i, m, k)
                  IN  ~AllMax(i, k)
                          => /\ i < x
                             /\ x < k
                             /\ \A m \in (i + 1)..(k - 1) :
                                    /\ ~SLess(C(m), C(x))
                                    /\ m < x => SLess(C(x), C(m))
    /\ (CommitDone /\ TreeValid(0, Len(vertices_) - 1))
           => InsertedEdges =
                  {{At(vertices_, r[1]), At(vertices_, r[2])} :
                       r \in TreeRanges(0, Len(vertices_) - 1)}
                  \ hist.mesh0.edges

\* a range of the planned face has two candidates that tie for the least
\* combined cost
C5_TieScanned ==
    /\ JustPlanned
    /\ \E ik \in Ranges(Len(vertices_)) :
           \E m1, m2 \in (ik[1] + 1)..(ik[2] - 1) :
               /\ m1 < m2
               /\ index_[ik[1]][ik[2]] = m1
               /\ SLess(Combined(weight_, ik[1], m1, ik[2]), FltMax)
               /\ SEq(Combined(weight_, ik[1], m1, ik[2]),
                      Combined(weight_, ik[1], m2, ik[2]))

\* C6: a call of triangulate(face, objective) on a face of three or fewer
\* boundary vertices returns before any table is built and leaves the mesh
\* as it was: no edge inserted, no face created, the same boundary loop;
\* so a second run over a mesh of triangles changes nothing.
C6_SmallFaceUntouched ==
    (Called /\ CallN <= 3)
        => /\ mesh_ = hist.mesh0
           /\ hist.outcome \in {"small", "nonmanifold"}
           /\ pc \in {"loop", "idle"}
           /\ weight_ = <<>>
           /\ index_ = <<>>

\* the second run has called triangulate on a triangle carved by the first
C6_RerunOnCarvedTriangle ==
    /\ Called
    /\ runs = 2
    /\ hist.outcome = "small"
    /\ nonManifold = {}
    /\ Len(mesh_.fhalf) >= 3
    /\ hist.face = Len(mesh_.fhalf)

\* C7: when the face at the head of the loop of triangulate(Objective) has
\* a non-manifold boundary vertex, the call of triangulate(face, objective)
\* inserts no edge, builds no table and does not stop the process: the loop
\* goes on with the remaining faces.
C7_NonManifoldFaceSkipped ==
    [][(/\ pc = "loop"
        /\ faceQueue # <<>>
        /\ \E v \in SeqSet(FaceVertices(mesh_, Head(faceQueue))) :
               ~is_manifold(v))
          => /\ mesh_' = mesh_
             /\ weight_' = <<>>
             /\ index_' = <<>>
             /\ todo' = <<>>
             /\ pc' = "loop"
             /\ faceQueue' = Tail(faceQueue)]_vars

\* the second face is called after the first was left for a non-manifold
\* vertex, and is left for the same reason
C7_SecondFaceAfterSkip ==
    /\ Called
    /\ hist.face = 2
    /\ hist.outcome = "nonmanifold"
    /\ CallN >= 4
    /\ pc = "loop"
    /\ faceQueue = <<>>

\* C8: when every candidate split of a range [i, k] with k - i >= 2 costs
\* max(), the planner still records a candidate i < m < k as the split of
\* the range, and the commit loop never reads the sentinel -1 for a range
\* with end - start >= 2 nor indexes halfedges_ and vertices_ out of
\* bounds.  Refuted.
C8_NoSentinelRead ==
    /\ JustPlanned
           => \A ik \in Ranges(Len(vertices_)) :
                  AllMax(ik[1], ik[2])
                      => /\ ik[1] < index_[ik[1]][ik[2]]
                         /\ index_[ik[1]][ik[2]] < ik[2]
    /\ pc # "undefined"

\* C9: with a split table whose tree holds no sentinel, whichever child
\* range is taken first at every step, no call of insert_edge reaches "This
\* should not happen", and when the commit loop has finished the edges of
\* the mesh and the vertex sets of its faces are those the code's order
\* yields.
C9_ChildOrderImmaterial ==
    (pc = "commit" /\ TreeValid(0, Len(vertices_) - 1))
        => /\ hist.logs = 0
           /\ todo = <<>>
                  => LET m == RunCommit(hist.mesh0,
                                        << <<0, Len(vertices_) - 1>> >>)
                     IN  /\ m.edges = mesh_.edges
                         /\ FaceSets(m) = FaceSets(mesh_)

\* the two children of a range lie on the stack in the other order, and
\* each of them still has a diagonal to insert
C9_ChildrenSwapped ==
    /\ pc = "commit"
    /\ TreeValid(0, Len(vertices_) - 1)
    /\ \E x \in 1..(Len(todo) - 1) :
           /\ todo[x][1] = todo[x + 1][2]
           /\ todo[x][2] - todo[x][1] >= 3
           /\ todo[x + 1][2] - todo[x + 1][1] >= 3

\* C10: every call of SurfaceMesh::insert_edge made by the commit loop
\* meets the precondition of that function in the mesh as it is at the
\* call: the two halfedges bound the same face loop, they lead to the
\* distinct vertices vertices_[i] and vertices_[j], and no edge joins these
\* vertices yet; whichever walk found the target.  Refuted.
C10_FaceSplitPrecondition ==
    \A x \in 1..Len(hist.calls) : hist.calls[x].pre

====
